---- MODULE Spec2Model ----
(***************************************************************************)
(* Model of the python-error-app fault-injection service (app.py).         *)
(*                                                                         *)
(* The process has one timer thread (background_logger, a daemon thread)   *)
(* and the HTTP server started by app.run.  Every thread that calls        *)
(* simulate_error executes it statement by statement; each step that reads *)
(* or writes the globals request_count / memory_leak is one atomic step,   *)
(* and nothing orders the steps of different threads (the code takes no    *)
(* lock).  `request_count += 1` is a read followed by a write.             *)
(*                                                                         *)
(* sys.exit(1) raises SystemExit in the calling thread.  It ends the       *)
(* process only when it unwinds the main thread: that is the case for a    *)
(* request handled by a single-threaded server (serve_forever runs in the  *)
(* main thread), not for the timer thread and not for a per-request thread *)
(* of a threaded server, where only the calling thread ends.  app.run is    *)
(* called without a `threaded` argument, so which of the two servers runs  *)
(* is the installed Flask's default: the model chooses it in Init.         *)
(***************************************************************************)
EXTENDS Integers, Sequences, FiniteSets, Bags, TLC

(* ---------------------------- bounds ---------------------------------- *)
\* number of request slots: GET requests that may be in flight at once
NumHandlers == 1
\* engine invocations started in a behaviour of a general configuration
MaxInv == 2
\* engine invocations started in a behaviour of the leak configuration
MaxInvLeak == 10
\* engine invocations started in a behaviour of the three-request scenario
MaxInvScenario == 3
\* engine invocations started in a behaviour of the late-threshold configuration
MaxInvLate == 5
\* engine invocations started in a behaviour that also serves the other routes
MaxInvProbed == 1
\* largest CRASH_AFTER value Init chooses
MaxCrashAfter == 2
\* ERROR_MESSAGES has 10 entries; random.choice draws among the first MaxMsg
MaxMsg == 2

(* ------------------------- program constants --------------------------- *)
\* [0] * 10000
BlockSize == 10000
\* len(memory_leak) % 10
WarnEvery == 10
\* ERROR_RATE and random.random() are counted in units of 1/RateScale
RateScale == 2

Timer == 0
Handlers == 1..NumHandlers
Threads == {Timer} \cup Handlers

FixedTypes == {"import-error", "db-error", "api-error", "disk-full"}
ErrorTypes == {"none", "panic", "unhealthy", "not-ready"} \cup FixedTypes
ERROR_MESSAGES == 1..MaxMsg
\* values of random.random(): d stands for d/RateScale, in [0,1)
Draws == 0..(RateScale - 1)
\* values of ERROR_RATE: r stands for r/RateScale, in [0,1]
Rates == 0..RateScale

NoResp == [route |-> "none", status |-> 0, requests |-> 0]

VARIABLES
    ERROR_TYPE, ERROR_RATE, CRASH_AFTER, OOM_TRIGGER,  \* configuration
    threaded,        \* app.run serves each request in a thread of its own
    limit,           \* invocations a behaviour may start (model bound)
    request_count, memory_leak,                        \* module globals
    pc,              \* position of every thread
    loaded,          \* value of request_count read by `+= 1`, per thread
    error_msg,       \* local error_msg of simulate_error, per thread
    trace,           \* what the thread's invocation in progress did so far,
                     \* with the values it logged; kept when the thread ends
    log,             \* bag of emitted log lines, as <<level, fixed text>>
    sent,            \* HTTP response sent by the last step, NoResp if none
    answered,        \* GET / requests ended so far, by outcome
    procState, exitCode,
    started,         \* engine invocations started
    passed,          \* engine invocations whose crash check was false
    overlapped,      \* some invocation started while another was in progress
    late             \* per thread: its invocation started when the crash
                     \* threshold had already been reached

config == <<ERROR_TYPE, ERROR_RATE, CRASH_AFTER, OOM_TRIGGER, threaded, limit>>
vars == <<ERROR_TYPE, ERROR_RATE, CRASH_AFTER, OOM_TRIGGER, threaded, limit,
          request_count, memory_leak, pc, loaded, error_msg, trace, log,
          sent, answered, procState, exitCode, started, passed,
          overlapped, late>>

(* ----------------------------- helpers -------------------------------- *)
Emit(line) == log (+) SetToBag({line})

Running == procState = "running"

\* a single-threaded server handles one request at a time
MayServe(h) ==
    /\ Running
    /\ pc[h] = "idle"
    /\ threaded \/ \A g \in Handlers : pc[g] = "idle"

\* thread t starts an invocation: what the history variables record of it
Enter(t) ==
    /\ started' = started + 1
    /\ overlapped' = (overlapped \/ \E u \in Threads \ {t} : pc[u] \notin {"idle", "dead"})
    /\ late' = [late EXCEPT ![t] =
           /\ CRASH_AFTER > 0
           /\ \/ request_count >= CRASH_AFTER
              \/ CopiesIn(<<"critical", "FATAL">>, log) >= 1
              \/ \E u \in Threads : pc[u] \in {"fatal", "exit"}]

Goto(t, p) == pc' = [pc EXCEPT ![t] = p]
Event(t, e) == trace' = [trace EXCEPT ![t] = Append(@, e)]
Forget(t) == trace' = [trace EXCEPT ![t] = <<>>]

InitState ==
    /\ request_count = 0
    /\ memory_leak = <<>>
    /\ pc = [t \in Threads |-> "idle"]
    /\ loaded = [t \in Threads |-> 0]
    /\ error_msg = [t \in Threads |-> 0]
    /\ trace = [t \in Threads |-> <<>>]
    /\ log = EmptyBag
    /\ sent = NoResp
    /\ answered = [ok |-> 0, failed |-> 0, dropped |-> 0]
    /\ procState = "running"
    /\ exitCode = 0
    /\ started = 0
    /\ passed = 0
    /\ overlapped = FALSE
    /\ late = [t \in Threads |-> FALSE]

\* every configuration, followed for MaxInv invocations
InitGeneral ==
    /\ ERROR_TYPE \in ErrorTypes
    /\ ERROR_RATE \in Rates
    /\ CRASH_AFTER \in 0..MaxCrashAfter
    /\ OOM_TRIGGER \in BOOLEAN
    /\ threaded \in BOOLEAN
    /\ limit = MaxInv

\* OOM_TRIGGER=true with the other variables at their defaults, followed for
\* MaxInvLeak invocations so that the 10th append happens
InitLeak ==
    /\ ERROR_TYPE = "none"
    /\ ERROR_RATE = 0
    /\ CRASH_AFTER = 0
    /\ OOM_TRIGGER = TRUE
    /\ threaded = FALSE
    /\ limit = MaxInvLeak

\* the db-error scenario: three calls of GET /
InitScenario ==
    /\ ERROR_TYPE = "db-error"
    /\ ERROR_RATE = 0
    /\ CRASH_AFTER = 0
    /\ OOM_TRIGGER = FALSE
    /\ threaded \in BOOLEAN
    /\ limit = MaxInvScenario

\* a crash threshold above the general ones, followed for MaxInvLate
\* invocations: enough for the threshold to be reached while an earlier
\* invocation is still between its read and its write of request_count
InitLate ==
    /\ ERROR_TYPE = "none"
    /\ ERROR_RATE = 0
    /\ CRASH_AFTER = MaxCrashAfter + 1
    /\ OOM_TRIGGER = FALSE
    /\ threaded = TRUE
    /\ limit = MaxInvLate

Init == InitState /\ (InitGeneral \/ InitLeak \/ InitScenario \/ InitLate)

\* every configuration, followed for MaxInvProbed invocations while the
\* other routes are served as well
InitProbed ==
    /\ ERROR_TYPE \in ErrorTypes
    /\ ERROR_RATE \in Rates
    /\ CRASH_AFTER \in 0..MaxCrashAfter
    /\ OOM_TRIGGER \in BOOLEAN
    /\ threaded \in BOOLEAN
    /\ limit = MaxInvProbed

InitRoutes == InitState /\ (InitProbed \/ InitLeak \/ InitScenario)

(* ------------------------- entry points ------------------------------- *)
\* Entering simulate_error touches nothing shared before `request_count += 1`
\* reads the counter, so the call and that read are one step.

\* index(): GET / calls simulate_error; request_count += 1, the read
IndexCall(h) ==
    /\ MayServe(h)
    /\ started < limit
    /\ Enter(h)
    /\ loaded' = [loaded EXCEPT ![h] = request_count]
    /\ Goto(h, "store")
    /\ sent' = NoResp
    /\ UNCHANGED <<config, request_count, memory_leak, error_msg, trace, log,
                   answered, procState, exitCode, passed>>

\* background_logger(): time.sleep(5) returns and simulate_error is called;
\* request_count += 1, the read
TimerTick ==
    /\ Running
    /\ pc[Timer] = "idle"
    /\ started < limit
    /\ Enter(Timer)
    /\ loaded' = [loaded EXCEPT ![Timer] = request_count]
    /\ Goto(Timer, "store")
    /\ sent' = NoResp
    /\ UNCHANGED <<config, request_count, memory_leak, error_msg, trace, log,
                   answered, procState, exitCode, passed>>

(* ------------------------- simulate_error ----------------------------- *)
\* the counter stepping by two
Incremented_ByTwo(old) == old + 2

\* the value `request_count += 1` writes, from the value it read
Incremented(old) == old + 1

\* request_count += 1, the write
StoreCount(t) ==
    /\ Running
    /\ pc[t] = "store"
    /\ request_count' = Incremented(loaded[t])
    /\ loaded' = [loaded EXCEPT ![t] = 0]
    /\ Event(t, [ev |-> "inc", n |-> Incremented(loaded[t])])
    /\ Goto(t, "check")
    /\ sent' = NoResp
    /\ UNCHANGED <<config, memory_leak, error_msg, log, answered,
                   procState, exitCode, started, passed, overlapped, late>>

\* the crash check without its CRASH_AFTER > 0 guard
CrashCondition_NoGuard(count) == count >= CRASH_AFTER

\* if CRASH_AFTER > 0 and request_count >= CRASH_AFTER
CrashCondition(count) == CRASH_AFTER > 0 /\ count >= CRASH_AFTER

\* if OOM_TRIGGER
AfterCheck == IF OOM_TRIGGER THEN "append" ELSE "draw"

CrashCheck(t) ==
    /\ Running
    /\ pc[t] = "check"
    /\ IF CrashCondition(request_count)
         THEN /\ Goto(t, "fatal")
              /\ passed' = passed
         ELSE /\ Goto(t, AfterCheck)
              /\ passed' = passed + 1
    /\ sent' = NoResp
    /\ UNCHANGED <<config, request_count, memory_leak, loaded, error_msg,
                   trace, log, answered, procState, exitCode, started, overlapped, late>>

\* logging.critical(f'FATAL: Crash limit reached after {request_count} requests!')
LogFatal(t) ==
    /\ Running
    /\ pc[t] = "fatal"
    /\ log' = Emit(<<"critical", "FATAL">>)
    /\ Event(t, [ev |-> "fatal", n |-> request_count])
    /\ Goto(t, "exit")
    /\ sent' = NoResp
    /\ UNCHANGED <<config, request_count, memory_leak, loaded, error_msg,
                   answered, procState, exitCode, started, passed, overlapped, late>>

\* SystemExit ends the process when it unwinds the main thread: a request of a
\* single-threaded server; the timer thread and a request thread only end
ExitsProcess(t) == t \in Handlers /\ ~threaded

\* sys.exit(1) left out: simulate_error goes on with the next policy
SysExit_FallsThrough(t) ==
    /\ Running
    /\ pc[t] = "exit"
    /\ Goto(t, IF OOM_TRIGGER THEN "append" ELSE "draw")
    /\ sent' = NoResp
    /\ UNCHANGED <<config, request_count, memory_leak, loaded, error_msg,
                   trace, log, answered, procState, exitCode, started, passed, overlapped, late>>

\* sys.exit(1)
SysExit(t) ==
    /\ Running
    /\ pc[t] = "exit"
    /\ IF ExitsProcess(t)
         THEN /\ procState' = "exited"
              /\ exitCode' = 1
              /\ Goto(t, "dead")
              /\ UNCHANGED <<answered, trace>>
         ELSE /\ UNCHANGED <<procState, exitCode>>
              /\ IF t = Timer
                   THEN /\ Goto(t, "dead")
                        /\ UNCHANGED <<answered, trace>>
                   ELSE \* the request's thread ends without a response
                        /\ Goto(t, "idle")
                        /\ answered' = [answered EXCEPT !.dropped = @ + 1]
                        /\ Forget(t)
    /\ sent' = NoResp
    /\ UNCHANGED <<config, request_count, memory_leak, loaded, error_msg,
                   log, started, passed, overlapped, late>>

\* the list replaced by a one-block list instead of appended to
Leaked_Replaced(blocks) == <<BlockSize>>

\* memory_leak.append([0] * 10000)
Leaked(blocks) == Append(blocks, BlockSize)

LeakAppend(t) ==
    /\ Running
    /\ pc[t] = "append"
    /\ memory_leak' = Leaked(memory_leak)
    /\ Event(t, [ev |-> "append", n |-> Len(memory_leak) + 1])
    /\ Goto(t, "lencheck")
    /\ sent' = NoResp
    /\ UNCHANGED <<config, request_count, loaded, error_msg, log, answered,
                   procState, exitCode, started, passed, overlapped, late>>

\* if len(memory_leak) % 10 == 0
WarnDue(len) == len % WarnEvery = 0

LenCheck(t) ==
    /\ Running
    /\ pc[t] = "lencheck"
    /\ Goto(t, IF WarnDue(Len(memory_leak)) THEN "warn" ELSE "draw")
    /\ sent' = NoResp
    /\ UNCHANGED <<config, request_count, memory_leak, loaded, error_msg,
                   trace, log, answered, procState, exitCode, started, passed, overlapped, late>>

\* logging.warning(f'Memory leak: {len(memory_leak) * 10000} items allocated')
LogWarn(t) ==
    /\ Running
    /\ pc[t] = "warn"
    /\ log' = Emit(<<"warning", "Memory leak">>)
    /\ Event(t, [ev |-> "warn", n |-> Len(memory_leak) * BlockSize])
    /\ Goto(t, "draw")
    /\ sent' = NoResp
    /\ UNCHANGED <<config, request_count, memory_leak, loaded, error_msg,
                   answered, procState, exitCode, started, passed, overlapped, late>>

\* the comparison turned around
DrawSucceeds_Reversed(d) == d > ERROR_RATE

\* a draw equal to the rate counted as a success
DrawSucceeds_OrEqual(d) == d <= ERROR_RATE

\* random.random() < ERROR_RATE
DrawSucceeds(d) == d < ERROR_RATE

\* the raise left out
Panics_Never == FALSE

\* the raise not guarded by ERROR_TYPE
Panics_Always == TRUE

\* if ERROR_TYPE == 'panic'
Panics == ERROR_TYPE = "panic"

\* the if/elif chain over ERROR_TYPE: the tags that have a fixed log line
HasFixedLine(type) == type \in FixedTypes

\* the chain over ERROR_TYPE placed in the else branch of the draw
FixedPolicy_OnlyWithoutError(t, lg, tr) ==
    IF HasFixedLine(ERROR_TYPE) /\ lg = log
      THEN /\ log' = lg (+) SetToBag({<<"error", ERROR_TYPE>>})
           /\ trace' = [trace EXCEPT ![t] = Append(tr, [ev |-> "fixed", n |-> 0])]
      ELSE /\ log' = lg
           /\ trace' = [trace EXCEPT ![t] = tr]

\* the chain over ERROR_TYPE placed before the draw
FixedPolicy_First(t, lg, tr) ==
    IF HasFixedLine(ERROR_TYPE)
      THEN /\ log' = lg (+) SetToBag({<<"error", ERROR_TYPE>>})
           /\ trace' = [trace EXCEPT ![t] =
                  IF Len(tr) > 0 /\ tr[Len(tr)].ev = "error"
                    THEN Append(SubSeq(tr, 1, Len(tr) - 1), [ev |-> "fixed", n |-> 0])
                           \o <<tr[Len(tr)]>>
                    ELSE Append(tr, [ev |-> "fixed", n |-> 0])]
      ELSE /\ log' = lg
           /\ trace' = [trace EXCEPT ![t] = tr]

\* the log and the trace after the if/elif chain, from what they were before it
FixedPolicy(t, lg, tr) ==
    IF HasFixedLine(ERROR_TYPE)
      THEN /\ log' = lg (+) SetToBag({<<"error", ERROR_TYPE>>})
           /\ trace' = [trace EXCEPT ![t] = Append(tr, [ev |-> "fixed", n |-> 0])]
      ELSE /\ log' = lg
           /\ trace' = [trace EXCEPT ![t] = tr]

\* if random.random() < ERROR_RATE:
\*     error_msg = random.choice(ERROR_MESSAGES)
\*     logging.error(f'ERROR [{request_count}]: {error_msg}')
\*     if ERROR_TYPE == 'panic': (goes on in Raise)
\* if ERROR_TYPE == 'import-error': ... elif ... (the fixed lines)
\* Only the error line reads shared state; the rest of the step is local to
\* the thread or appends to the log.
ErrorPolicies(t) ==
    /\ Running
    /\ pc[t] = "draw"
    /\ \E d \in Draws :
         IF DrawSucceeds(d)
           THEN LET logged == Emit(<<"error", "ERROR">>)
                    traced == Append(trace[t], [ev |-> "error", n |-> request_count])
                IN  IF Panics
                      THEN /\ \E m \in ERROR_MESSAGES :
                                error_msg' = [error_msg EXCEPT ![t] = m]
                           /\ log' = logged
                           /\ trace' = [trace EXCEPT ![t] = traced]
                           /\ Goto(t, "raise")
                      ELSE /\ error_msg' = error_msg
                           /\ FixedPolicy(t, logged, traced)
                           /\ Goto(t, "return")
           ELSE /\ error_msg' = error_msg
                /\ FixedPolicy(t, log, trace[t])
                /\ Goto(t, "return")
    /\ sent' = NoResp
    /\ UNCHANGED <<config, request_count, memory_leak, loaded,
                   answered, procState, exitCode, started, passed, overlapped, late>>

\* raise Exception(error_msg): out of index() the exception reaches Flask, which
\* answers 500; out of background_logger() it ends the timer thread
Raise(t) ==
    /\ Running
    /\ pc[t] = "raise"
    /\ error_msg' = [error_msg EXCEPT ![t] = 0]
    /\ IF t = Timer
         THEN /\ Goto(t, "dead")
              /\ Event(t, [ev |-> "panic", n |-> 0])
              /\ sent' = NoResp
              /\ answered' = answered
         ELSE /\ Goto(t, "idle")
              /\ Forget(t)
              /\ sent' = [route |-> "/", status |-> 500, requests |-> 0]
              /\ answered' = [answered EXCEPT !.failed = @ + 1]
    /\ UNCHANGED <<config, request_count, memory_leak, loaded, log,
                   procState, exitCode, started, passed, overlapped, late>>

(* ---------------------- after simulate_error -------------------------- *)
\* index(): return jsonify({... 'requests': request_count ...})
IndexReturn(h) ==
    /\ Running
    /\ pc[h] = "return"
    /\ sent' = [route |-> "/", status |-> 200, requests |-> request_count]
    /\ answered' = [answered EXCEPT !.ok = @ + 1]
    /\ Goto(h, "idle")
    /\ Forget(h)
    /\ UNCHANGED <<config, request_count, memory_leak, loaded, error_msg,
                   log, procState, exitCode, started, passed, overlapped, late>>

\* background_logger(): logging.info(f'Status: {request_count} requests processed')
LogStatus ==
    /\ Running
    /\ pc[Timer] = "return"
    /\ log' = Emit(<<"info", "Status">>)
    /\ Forget(Timer)
    /\ Goto(Timer, "idle")
    /\ sent' = NoResp
    /\ UNCHANGED <<config, request_count, memory_leak, loaded, error_msg,
                   answered, procState, exitCode, started, passed, overlapped, late>>

(* --------------------------- other routes ----------------------------- *)
\* These views are one step each and hold no request slot: a threaded server
\* serves them at any time, a single-threaded one between two requests.
MayProbe ==
    /\ Running
    /\ threaded \/ \A g \in Handlers : pc[g] = "idle"

\* health() ignoring ERROR_TYPE
Health_AlwaysOk ==
    /\ MayProbe
    /\ sent' = [route |-> "/health", status |-> 200, requests |-> request_count]
    /\ UNCHANGED <<config, request_count, memory_leak, pc, loaded, error_msg,
                   trace, log, answered, procState, exitCode, started, passed,
                   overlapped, late>>

\* health()
Health ==
    /\ MayProbe
    /\ sent' = IF ERROR_TYPE = "unhealthy"
                 THEN [route |-> "/health", status |-> 500, requests |-> 0]
                 ELSE [route |-> "/health", status |-> 200, requests |-> request_count]
    /\ UNCHANGED <<config, request_count, memory_leak, pc, loaded, error_msg,
                   trace, log, answered, procState, exitCode, started, passed,
                   overlapped, late>>

\* ready()
Ready ==
    /\ MayProbe
    /\ sent' = IF ERROR_TYPE = "not-ready"
                 THEN [route |-> "/ready", status |-> 503, requests |-> 0]
                 ELSE [route |-> "/ready", status |-> 200, requests |-> 0]
    /\ UNCHANGED <<config, request_count, memory_leak, pc, loaded, error_msg,
                   trace, log, answered, procState, exitCode, started, passed,
                   overlapped, late>>

\* metrics() counting itself as a request
Metrics_Invokes ==
    /\ MayProbe
    /\ request_count' = request_count + 1
    /\ sent' = [route |-> "/metrics", status |-> 200, requests |-> request_count + 1]
    /\ UNCHANGED <<config, memory_leak, pc, loaded, error_msg,
                   trace, log, answered, procState, exitCode, started, passed,
                   overlapped, late>>

\* metrics()
Metrics ==
    /\ MayProbe
    /\ sent' = [route |-> "/metrics", status |-> 200, requests |-> request_count]
    /\ UNCHANGED <<config, request_count, memory_leak, pc, loaded, error_msg,
                   trace, log, answered, procState, exitCode, started, passed,
                   overlapped, late>>

\* the engine and its two callers
Next ==
    \/ \E h \in Handlers : IndexCall(h)
    \/ TimerTick
    \/ \E t \in Threads : StoreCount(t)
    \/ \E t \in Threads : CrashCheck(t)
    \/ \E t \in Threads : LogFatal(t)
    \/ \E t \in Threads : SysExit(t)
    \/ \E t \in Threads : LeakAppend(t)
    \/ \E t \in Threads : LenCheck(t)
    \/ \E t \in Threads : LogWarn(t)
    \/ \E t \in Threads : ErrorPolicies(t)
    \/ \E t \in Threads : Raise(t)
    \/ \E h \in Handlers : IndexReturn(h)
    \/ LogStatus

\* the routes that do not call the engine
Probe ==
    \/ Health
    \/ Ready
    \/ Metrics

NextRoutes == Next \/ Probe

Spec == Init /\ [][Next]_vars

\* the whole HTTP surface
SpecRoutes == InitRoutes /\ [][NextRoutes]_vars

(* ------------------------------ claims -------------------------------- *)
Evs(tr) == [i \in 1..Len(tr) |-> tr[i].ev]
HasEv(tr, e) == \E i \in 1..Len(tr) : tr[i].ev = e
Lines(line) == CopiesIn(line, log)
FatalLines == Lines(<<"critical", "FATAL">>)
WarnLines == Lines(<<"warning", "Memory leak">>)
\* no invocation is in progress
Quiescent == \A t \in Threads : pc[t] \in {"idle", "dead"}
\* every started invocation has done its increment
AllCounted == \A t \in Threads : pc[t] # "store"

\* C1: after k engine invocations, in any interleaving, request_count = k:
\* once every started invocation has executed its increment, request_count
\* equals the number of invocations started.
C1_CountEqualsInvocations == AllCounted => request_count = started

\* C2: with crash_after = N > 0 the crash policy fires in exactly one
\* invocation, never while fewer than N invocations have started, and once N
\* invocations were issued and have run the process has ended with a non-zero
\* exit code.
C2_CrashExactlyOnce ==
    CRASH_AFTER > 0 =>
        /\ FatalLines <= 1
        /\ (FatalLines >= 1 => started >= CRASH_AFTER)
        /\ (Quiescent /\ started >= CRASH_AFTER =>
                procState = "exited" /\ exitCode # 0)

\* some thread has gone through the crash policy to the end of sys.exit(1)
CrashDone ==
    \/ procState = "exited"
    \/ answered.dropped >= 1
    \/ pc[Timer] = "dead" /\ HasEv(trace[Timer], "fatal")

\* C3: once the crash policy has observed request_count >= crash_after > 0
\* and ended the process, no later step changes request_count or
\* leaked_blocks, starts an engine invocation or returns an HTTP response.
C3_NothingAfterCrash ==
    [][CrashDone =>
          /\ request_count' = request_count
          /\ memory_leak' = memory_leak
          /\ started' = started
          /\ sent' = NoResp]_vars

\* C4: an invocation in which the crash policy triggers does the counter
\* increment and the fatal log entry and nothing else: it appends no block,
\* logs no warning and no error line, raises no panic, and ends at sys.exit.
C4_CrashSkipsLaterPolicies ==
    \A t \in Threads :
        /\ pc[t] = "exit" => HasEv(trace[t], "fatal")
        /\ HasEv(trace[t], "fatal") =>
              /\ Evs(trace[t]) = <<"inc", "fatal">>
              /\ pc[t] \in {"exit", "dead"}

\* a thread ended in the crash policy although the leak, the random error and
\* a fixed line were all configured
C4_Witness ==
    /\ OOM_TRIGGER
    /\ ERROR_RATE = RateScale
    /\ ERROR_TYPE \in FixedTypes
    /\ pc[Timer] = "dead"
    /\ Evs(trace[Timer]) = <<"inc", "fatal">>
    /\ memory_leak = <<>>

\* C5: with crash_after = 0 the crash policy never fires and the process
\* never ends itself, whatever the other settings and the request volume:
\* no fatal line, no thread in the crash branch, the process is running and
\* every request slot is still served.
C5_NoCrashWhenDisabled ==
    CRASH_AFTER = 0 =>
        /\ procState = "running"
        /\ exitCode = 0
        /\ FatalLines = 0
        /\ \A t \in Threads : pc[t] \notin {"fatal", "exit"}
        /\ \A h \in Handlers : pc[h] # "dead"

\* crash_after = 0 with panic configured: all invocations of the run were
\* made, a request failed with the panic, and the process is running
C5_Witness ==
    /\ CRASH_AFTER = 0
    /\ ERROR_TYPE = "panic"
    /\ started = limit
    /\ Quiescent
    /\ answered.failed >= 1
    /\ procState = "running"

\* C6: while the process has not exited the timer loop is alive; no outcome
\* of an engine invocation made by the timer ends it (stated for the
\* configurations in which the crash policy is off, where only the other
\* policies can decide it).
C6_TimerLoopNeverStops ==
    (procState = "running" /\ CRASH_AFTER = 0) => pc[Timer] # "dead"

\* C7: with oom_trigger on and the crash policy off, every 10th append
\* emits exactly one warning: there are never more warnings than 10th
\* appends, there are floor(len(leaked_blocks) / 10) of them once no
\* invocation is in progress, and each reports the count at a 10th append, a
\* multiple of 100,000.
C7_OneWarningPerTenAppends ==
    (OOM_TRIGGER /\ CRASH_AFTER = 0) =>
        /\ WarnLines <= Len(memory_leak) \div WarnEvery
        /\ Quiescent => WarnLines = Len(memory_leak) \div WarnEvery
        /\ \A t \in Threads : \A i \in 1..Len(trace[t]) :
              trace[t][i].ev = "warn" =>
                  trace[t][i].n % (WarnEvery * BlockSize) = 0

\* invocations that passed the crash check and have not appended yet
PendingAppends == Cardinality({t \in Threads : pc[t] = "append"})

\* C8: leaked_blocks only grows: with oom_trigger on it holds one block of
\* 10,000 units for every invocation that did not trigger the crash policy
\* and has executed its append, with oom_trigger off it stays empty, and no
\* step removes or changes a block.
C8_LeakGrowsOnly ==
    /\ [](/\ \A i \in 1..Len(memory_leak) : memory_leak[i] = BlockSize
          /\ ~OOM_TRIGGER => memory_leak = <<>>
          /\ OOM_TRIGGER => Len(memory_leak) = passed - PendingAppends)
    /\ [][/\ Len(memory_leak') >= Len(memory_leak)
          /\ SubSeq(memory_leak', 1, Len(memory_leak)) = memory_leak]_vars

\* ten blocks are held and no invocation is in progress
C8_Witness ==
    /\ OOM_TRIGGER
    /\ Quiescent
    /\ Len(memory_leak) = WarnEvery
    /\ passed = WarnEvery

\* C9: with error_type = panic, a GET / whose draw succeeds raises after its
\* increment and after its error line and never reaches the return of the
\* status body; the request is answered 500 and the process keeps running,
\* the slot free for the next request.
C9_PanicFailsRequestOnly ==
    /\ [](\A h \in Handlers :
            /\ pc[h] = "raise" =>
                  /\ ERROR_TYPE = "panic"
                  /\ procState = "running"
                  /\ Len(trace[h]) >= 2
                  /\ trace[h][1].ev = "inc"
                  /\ trace[h][Len(trace[h])].ev = "error"
            /\ (ERROR_TYPE = "panic" /\ HasEv(trace[h], "error")) =>
                  pc[h] = "raise")
    /\ [][\A h \in Handlers :
            pc[h] = "raise" =>
                \/ pc'[h] = "raise"
                \/ /\ pc'[h] = "idle"
                   /\ sent' = [route |-> "/", status |-> 500, requests |-> 0]
                   /\ procState' = "running"
                   /\ request_count' = request_count]_vars

\* a GET / is answered 200 after an earlier one failed with the panic
C9_Witness ==
    /\ ERROR_TYPE = "panic"
    /\ answered.failed >= 1
    /\ sent.route = "/"
    /\ sent.status = 200
    /\ procState = "running"

\* C10: when error_type is not panic no GET / fails: a request whose
\* invocation passed the crash check goes through the remaining policies to
\* the return, every response of GET / is 200, and without the crash policy
\* no request is dropped either.
C10_PoliciesNeverFailRequest ==
    ERROR_TYPE # "panic" =>
        /\ answered.failed = 0
        /\ \A t \in Threads : pc[t] # "raise"
        /\ sent.route = "/" => sent.status = 200
        /\ CRASH_AFTER = 0 => answered.dropped = 0 /\ procState = "running"
        /\ \A h \in Handlers :
              (HasEv(trace[h], "error") \/ HasEv(trace[h], "warn")
                    \/ HasEv(trace[h], "fixed")) => pc[h] \in {"draw", "return"}

\* a GET / is answered 200 with the leak on, the draw succeeding every
\* time and a fixed error type configured
C10_Witness ==
    /\ OOM_TRIGGER
    /\ ERROR_RATE = RateScale
    /\ ERROR_TYPE \in FixedTypes
    /\ sent.route = "/"
    /\ sent.status = 200
    /\ answered.ok >= 1

\* C11: GET /metrics never increments request_count and triggers no policy:
\* handling it leaves request_count and the leaked blocks unchanged, emits
\* no log line, starts no engine invocation, moves no thread, does not end
\* the process, and returns 200 with requests_total equal to the current
\* request_count.
C11_MetricsReadsOnly ==
    /\ [](sent.route = "/metrics" =>
              /\ sent.status = 200
              /\ sent.requests = request_count
              /\ procState = "running")
    /\ [][sent'.route = "/metrics" =>
              UNCHANGED <<request_count, memory_leak, log, pc, trace, started,
                          passed, answered, procState, exitCode>>]_vars

\* /metrics is answered with a count of at least one while an engine
\* invocation is in progress
C11_Witness ==
    /\ sent.route = "/metrics"
    /\ sent.requests >= 1
    /\ \E t \in Threads : pc[t] \notin {"idle", "dead"}

\* error_type db-error, error_rate 0, crash_after 0, oom_trigger false
ScenarioConfig ==
    /\ ERROR_TYPE = "db-error"
    /\ ERROR_RATE = 0
    /\ CRASH_AFTER = 0
    /\ ~OOM_TRIGGER

DbLines == Lines(<<"error", "db-error">>)

\* the timer thread has not invoked the engine yet
NoTimerTick == pc[Timer] = "idle" /\ Lines(<<"info", "Status">>) = 0

\* C12 as stated: in the db-error scenario the k-th response of GET / reports
\* requests = k, request_count = k after it, and k fixed db-error lines have
\* been emitted (three of each after three requests).
C12_KthResponseReportsK ==
    ScenarioConfig /\ sent.route = "/" =>
        /\ sent.status = 200
        /\ sent.requests = answered.ok
        /\ request_count = answered.ok
        /\ DbLines = answered.ok

\* C12 amended: in the db-error scenario, as long as the timer thread has
\* not invoked the engine and no two invocations were in progress at the
\* same time, the k-th response of GET / reports requests = k,
\* request_count = k after it, and k fixed db-error lines have been emitted.
C12_KthResponseReportsK_Sequential ==
    ScenarioConfig /\ NoTimerTick /\ ~overlapped /\ sent.route = "/" =>
        /\ sent.status = 200
        /\ sent.requests = answered.ok
        /\ request_count = answered.ok
        /\ DbLines = answered.ok

\* the third GET / of the scenario is answered with requests = 3 before any
\* timer tick
C12_Witness ==
    /\ ScenarioConfig
    /\ NoTimerTick
    /\ ~overlapped
    /\ sent.route = "/"
    /\ sent.requests = 3
    /\ answered.ok = 3
    /\ DbLines = 3

ErrorLines == Lines(<<"error", "ERROR">>)
\* invocations that passed the crash check and have not reached the draw yet
BeforeDraw == Cardinality({t \in Threads : pc[t] \in {"append", "lencheck", "warn", "draw"}})

\* C13 as stated: for error_rate = 1, after k engine invocations (requests
\* or timer ticks, for any crash_after, oom_trigger and error_type) exactly k
\* probabilistic error lines have been logged.
C13_OneErrorLinePerInvocation ==
    ERROR_RATE = RateScale /\ Quiescent => ErrorLines = started

\* C13 amended: for error_rate = 1, every engine invocation that does not
\* trigger the crash policy emits exactly one probabilistic error line: the
\* lines logged are as many as the invocations that passed the crash check
\* and reached the draw, and with crash_after = 0, after k invocations
\* exactly k lines have been logged.
C13_OneErrorLinePerPassedInvocation ==
    ERROR_RATE = RateScale =>
        /\ ErrorLines = passed - BeforeDraw
        /\ CRASH_AFTER = 0 /\ Quiescent => ErrorLines = started

\* error_rate = 1 and a crash threshold: an invocation logged its error line,
\* a later one ended in the crash policy without one
C13_Witness ==
    /\ ERROR_RATE = RateScale
    /\ CRASH_AFTER > 0
    /\ FatalLines = 1
    /\ ErrorLines >= 1
    /\ started > ErrorLines
    /\ Quiescent

\* C14: for error_rate = 0 the probabilistic policy never fires, whatever
\* the draw and the number of invocations: no probabilistic error line is
\* logged and, even with error_type = panic, no exception is raised, no
\* request fails and the timer thread is not ended by a panic.
C14_ZeroRateNeverFires ==
    ERROR_RATE = 0 =>
        /\ ErrorLines = 0
        /\ answered.failed = 0
        /\ \A t \in Threads :
              /\ pc[t] # "raise"
              /\ ~HasEv(trace[t], "error")
              /\ ~HasEv(trace[t], "panic")

\* error_rate = 0 with panic configured: every invocation of the run was
\* made, requests were answered 200 and the timer thread went through a tick
C14_Witness ==
    /\ ERROR_RATE = 0
    /\ ERROR_TYPE = "panic"
    /\ CRASH_AFTER = 0
    /\ started = limit
    /\ Quiescent
    /\ answered.ok >= 1
    /\ Lines(<<"info", "Status">>) >= 1

\* C15: the status of the probe endpoints is a function of error_type
\* alone: GET /health returns 500 iff error_type = unhealthy (else 200) and
\* GET /ready returns 503 iff error_type = not-ready (else 200), whatever the
\* rest of the state; serving them starts no engine invocation and changes
\* neither request_count nor the leaked blocks.
C15_ProbesDependOnTypeOnly ==
    /\ [](/\ sent.route = "/health" =>
                sent.status = IF ERROR_TYPE = "unhealthy" THEN 500 ELSE 200
          /\ sent.route = "/ready" =>
                sent.status = IF ERROR_TYPE = "not-ready" THEN 503 ELSE 200)
    /\ [][sent'.route \in {"/health", "/ready"} =>
              UNCHANGED <<request_count, memory_leak, started, passed, pc, log>>]_vars

\* /health answers 500 after requests were counted and while an engine
\* invocation is in progress
C15_Witness ==
    /\ ERROR_TYPE = "unhealthy"
    /\ sent.route = "/health"
    /\ sent.status = 500
    /\ request_count >= 1
    /\ \E t \in Threads : pc[t] \notin {"idle", "dead"}

\* C16: the fixed error-type policy is independent of the probabilistic one:
\* when error_type is import-error, db-error, api-error or disk-full, every
\* invocation that does not trigger the crash policy emits exactly one fixed
\* error line for that tag, whether or not the draw succeeded, and no line of
\* another tag; for every other error_type no fixed line is emitted.
C16_FixedLineIndependentOfDraw ==
    /\ \A tag \in FixedTypes :
          Lines(<<"error", tag>>) = IF tag = ERROR_TYPE THEN passed - BeforeDraw ELSE 0
    /\ \A t \in Threads :
          /\ pc[t] = "return" => (HasEv(trace[t], "fixed") <=> ERROR_TYPE \in FixedTypes)
          /\ HasEv(trace[t], "fixed") => ERROR_TYPE \in FixedTypes

\* with a fixed type and error_rate = 1/2, two invocations have completed:
\* the draw succeeded in one only, the fixed line was logged in both
C16_Witness ==
    /\ ERROR_TYPE \in FixedTypes
    /\ ERROR_RATE = 1
    /\ Quiescent
    /\ ErrorLines = 1
    /\ Lines(<<"error", ERROR_TYPE>>) = 2

\* position of an event in the order of the policy steps
Rank(e) ==
    CASE e = "inc" -> 1
      [] e = "fatal" -> 2
      [] e = "append" -> 3
      [] e = "warn" -> 4
      [] e = "error" -> 5
      [] e = "panic" -> 6
      [] e = "fixed" -> 6

\* C17: within one engine invocation the policy steps run in the fixed
\* order: the counter increment comes first, the crash check follows it
\* before anything else happens, then the leak append and its warning, then
\* the probabilistic error log (and the panic raise), then the fixed
\* error-type log; no invocation emits these events in another order.
C17_PolicyStepsInOrder ==
    \A t \in Threads :
        LET evs == Evs(trace[t]) IN
        /\ \A i \in 1..Len(evs) : \A j \in 1..Len(evs) :
              i < j => Rank(evs[i]) < Rank(evs[j])
        /\ pc[t] = "store" => evs = <<>>
        /\ pc[t] \in {"check", "fatal", "append"} => evs = <<"inc">>
        /\ pc[t] \notin {"idle", "store"} => Len(evs) >= 1 /\ evs[1] = "inc"

\* an invocation went through the increment, the leak append, the error
\* line and the fixed line, in this order
C17_Witness ==
    \E t \in Threads :
        /\ pc[t] = "return"
        /\ Evs(trace[t]) = <<"inc", "append", "error", "fixed">>

\* C18: in every reachable state the number of leaked blocks never exceeds
\* the invocation counter, len(leaked_blocks) <= request_count, under any
\* interleaving of request handlers and timer ticks.
C18_LeakAtMostCount == Len(memory_leak) <= request_count

\* C19: once request_count >= crash_after > 0 has been reached, every engine
\* invocation that still starts, from a request thread or the timer thread,
\* also triggers the crash policy: an invocation started after the threshold
\* never gets past the crash check to the memory, probabilistic or
\* fixed-error policies.
C19_LateInvocationsCrash ==
    \A t \in Threads :
        late[t] => pc[t] \in {"idle", "dead", "store", "check", "fatal", "exit"}

\* C20: the index printed in a probabilistic error line, 'ERROR [n]', is the
\* count assigned to the invocation that emits it, the value request_count
\* took at that invocation's own increment, also when other invocations run
\* between the increment and the log call.
C20_ErrorIndexIsOwnCount ==
    \A t \in Threads :
        \A i \in 1..Len(trace[t]) :
            trace[t][i].ev = "error" => trace[t][i].n = trace[t][1].n

====
